---- MODULE Spec2Model ----
(***************************************************************************)
(* Quote Wall (src/index.js): session-backed login, three role gates,      *)
(* quote composition / parsing, the quote feed and user administration.    *)
(*                                                                         *)
(* Text is modelled as a sequence of one-character strings, so that trim,  *)
(* split, join, toLowerCase and includes are computed character by         *)
(* character the way the JavaScript built-ins compute them.                *)
(***************************************************************************)
EXTENDS Integers, Sequences, FiniteSets, TLC

\* ------------------------------------------------------------------ bounds
\* size of a submitted form: entries of names[] and quotes[] plus the
\* characters typed into them and into the search box
MaxInput == 6
\* longest search string given to GET /
MaxSearch == 2

\* ------------------------------------------------------------------- text
Chars == {"a", "A", ":", " ", "\n"}

\* characters String.prototype.trim removes
IsSpace(ch) == ch \in {" ", "\n"}

RECURSIVE TrimStart(_)
TrimStart(s) ==
    IF s # <<>> /\ IsSpace(Head(s)) THEN TrimStart(Tail(s)) ELSE s

RECURSIVE TrimEnd(_)
TrimEnd(s) ==
    IF s # <<>> /\ IsSpace(s[Len(s)]) THEN TrimEnd(SubSeq(s, 1, Len(s) - 1)) ELSE s

\* String.prototype.trim
Trim(s) == TrimEnd(TrimStart(s))

LowerChar(ch) == IF ch = "A" THEN "a" ELSE ch

\* String.prototype.toLowerCase
ToLowerCase(s) == [i \in 1..Len(s) |-> LowerChar(s[i])]

\* String.prototype.includes
Includes(s, sub) ==
    \E i \in 0..(Len(s) - Len(sub)) : SubSeq(s, i + 1, i + Len(sub)) = sub

\* index of the first occurrence of the character sep in s, 0 when absent
IndexOf(s, sep) ==
    IF \E i \in 1..Len(s) : s[i] = sep
    THEN CHOOSE i \in 1..Len(s) : s[i] = sep /\ \A j \in 1..(i - 1) : s[j] # sep
    ELSE 0

\* String.prototype.split on a one-character separator
RECURSIVE Split(_, _)
Split(s, sep) ==
    LET i == IndexOf(s, sep) IN
    IF i = 0 THEN <<s>>
    ELSE <<SubSeq(s, 1, i - 1)>> \o Split(SubSeq(s, i + 1, Len(s)), sep)

\* Array.prototype.join with a one-character separator
RECURSIVE Join(_, _)
Join(parts, sep) ==
    IF parts = <<>> THEN <<>>
    ELSE IF Len(parts) = 1 THEN parts[1]
    ELSE parts[1] \o <<sep>> \o Join(Tail(parts), sep)

\* ------------------------------------------------- compose / parse / filter
\* A field the form does not send is undefined in req.body (the urlencoded
\* parser never yields an empty array); it is written <<>> here.
\* names.map(...) throws a TypeError when names is undefined, and so does
\* quotes[i].trim() when quotes is undefined or has no entry i.
ComposeThrows(names, quotes) == names = <<>> \/ Len(quotes) < Len(names)

\* `${name.trim()}: ${quotes[i].trim()}`
ComposeLine(name, quote) == Trim(name) \o <<":", " ">> \o Trim(quote)

\* names.map((name, i) => ...).join('\n'), defined when ComposeThrows is false
Compose(names, quotes) ==
    Join([i \in 1..Len(names) |-> ComposeLine(names[i], quotes[i])], "\n")

\* a parse that takes the second part only: text: parts[1].trim()
ParseLineSecondPart(line) ==
    LET parts == Split(line, ":") IN
    [name |-> Trim(parts[1]), text |-> IF Len(parts) > 1 THEN Trim(parts[2]) ELSE <<>>]

\* one element of the edit form: {name: parts[0].trim(), text: parts.slice(1).join(':').trim()}
ParseLine(line) ==
    LET parts == Split(line, ":") IN
    [name |-> Trim(parts[1]), text |-> Trim(Join(Tail(parts), ":"))]

\* quote.quote.split('\n').map(line => ...)
ParseLines(body) ==
    LET ls == Split(body, "\n") IN [i \in 1..Len(ls) |-> ParseLine(ls[i])]

\* the filter without toLowerCase on the speaker
SomeSpeakerIncludesCaseSensitive(body, searchName) ==
    LET trimmedSearch == ToLowerCase(Trim(searchName))
        ls == Split(body, "\n")
    IN \E i \in 1..Len(ls) :
          LET parts == Split(ls[i], ":") IN
          /\ Len(parts) > 1
          /\ Includes(Trim(parts[1]), trimmedSearch)

\* lines.some(line => ...) of the speaker filter, for a non-empty searchName
SomeSpeakerIncludes(body, searchName) ==
    LET trimmedSearch == ToLowerCase(Trim(searchName))
        ls == Split(body, "\n")
    IN \E i \in 1..Len(ls) :
          LET parts == Split(ls[i], ":") IN
          /\ Len(parts) > 1
          /\ Includes(ToLowerCase(Trim(parts[1])), trimmedSearch)

\* whether GET / keeps a quote with this body: if (searchName) { filter }
FilterKeeps(body, searchName) ==
    IF searchName = <<>> THEN TRUE ELSE SomeSpeakerIncludes(body, searchName)

\* ----------------------------------------------------------- request inputs
\* browsers (one session cookie each)
Clients == {"c1", "c2"}

Usernames == {"n1"}
Emails == {"e1", "e2"}
Passwords == {"p1", "p2"}
\* values a POST /users/:id/role body can carry
RoleInputs == {"user", "editor", "admin", "guest"}
\* values of ?sort= ("" is the absent parameter)
SortInputs == {"", "newest", "oldest"}

\* rows the id sequences of the three tables hand out before the model stops
MaxUsers == 2
MaxQuotes == 2
MaxLikes == 2
\* largest value of the database clock (db.fn.now())
MaxClock == 1
\* number of requests the server receives before the model stops
MaxRequests == 4

UserIds == 1..MaxUsers
QuoteIds == 1..MaxQuotes

\* names[] / quotes[] bodies submitted to POST /add and POST /edit/:id
FormInputs ==
    { [names |-> << <<"a">> >>, quotes |-> << <<"a">> >>],
      [names |-> << <<"A">> >>, quotes |-> << <<"a">>, <<"a">> >>],
      [names |-> << <<"a">> >>, quotes |-> << >>] }

\* values of ?search= in the request model
SearchInputs == { <<>>, <<"A">> }

\* -------------------------------------------------------------------- state
VARIABLES
    users,       \* rows of table users: [id, username, email, password, role]
    quotes,      \* rows of table quotes: [id, quote, created_at]
    likes,       \* rows of table likes: [id, user_id, quote_id]
    nextUserId,  \* sequence behind users.id
    nextQuoteId, \* sequence behind quotes.id
    nextLikeId,  \* sequence behind likes.id
    now,         \* database clock: db.fn.now() at the latest insert into quotes
    session,     \* req.session.user of each client
    pending,     \* the request a client has in flight between two awaits
    last,        \* the request step taken last and its response
    view,        \* locals handed to res.render by the last request
    toggles,     \* per (user, quote): POST /like requests answered with the redirect
    form,        \* inputs of the composer specifications
    out,         \* results of the composer specifications
    requests     \* number of requests received so far

vars == <<users, quotes, likes, nextUserId, nextQuoteId, nextLikeId, now,
          session, pending, last, view, toggles, form, out, requests>>

store == <<users, quotes, likes>>
seqs == <<nextUserId, nextQuoteId, nextLikeId>>
composer == <<form, out>>

\* req.session.user is undefined
NoUser == [id |-> 0, username |-> "", role |-> ""]
Idle == [kind |-> "idle"]
NoView == [page |-> ""]

\* bcrypt.hash(password, 10): a one-way hash, never the password itself
Hash(password) == <<"bcrypt", password>>
\* bcrypt.compare(password, hash)
Compare(password, hashed) == hashed = Hash(password)

\* ------------------------------------------------------------- auth gates
RequireLogin(s) == s # NoUser
\* an admin gate that also lets editors through
RequireAdminOrEditor(s) == s # NoUser /\ (s.role = "admin" \/ s.role = "editor")
RequireAdmin(s) == s # NoUser /\ s.role = "admin"
\* a gate that only asks for a session
RequireAnyRole(s) == s # NoUser
RequireEditorOrAdmin(s) == s # NoUser /\ (s.role = "admin" \/ s.role = "editor")

RedirectLogin == "302 /login"
RedirectHome == "302 /"
RedirectUsers == "302 /users"
AdminOnly == "403 Admin access only"
EditorOnly == "403 Editor or Admin access required"
InvalidCredentials == "200 Invalid credentials"
EmailExists == "200 Email already exists"
QuoteNotFound == "404 Quote not found"
SelfDeletion == "400 You cannot delete your own account"
\* a rejected promise inside an async handler: no response is sent
Unhandled == "unhandled rejection"

\* a client sends its next request once its previous one has been answered
Begin(c) ==
    /\ pending[c] = Idle
    /\ requests < MaxRequests
    /\ requests' = requests + 1

\* no parameter of the request has been read
NoArg == [none |-> TRUE]

\* the step a request takes: role is the session's role when the gate ran, gate
\* is "pass", "deny" or "none" (public route), arg holds the request's
\* parameters once the handler has read them, res is the response
Step(op, c, role, gate, arg, res) ==
    [op |-> op, c |-> c, role |-> role, gate |-> gate, arg |-> arg, res |-> res]

\* a request stopped by its gate: nothing but the response changes
Denied(op, c, res) ==
    /\ last' = Step(op, c, session[c].role, "deny", NoArg, res)
    /\ view' = NoView
    /\ UNCHANGED <<store, seqs, now, session, pending, toggles, composer>>

\* a request that passed its gate and answered res without touching the store
Answer(op, c, gate, arg, res, v) ==
    /\ last' = Step(op, c, session[c].role, gate, arg, res)
    /\ view' = v
    /\ UNCHANGED <<store, seqs, now, session, pending, toggles, composer>>

\* -------------------------------------------------------- store constraints
\* a users table created without the unique constraint
EmailUniqueMissing(rows, id, email) == TRUE

\* table.string("email").unique(): may a users row other than id carry email
EmailUniqueOk(rows, id, email) == \A u \in rows : u.id = id \/ u.email # email

\* a likes table created without the unique constraint
LikeUniqueMissing(rows, userId, quoteId) == TRUE

\* table.unique(["user_id", "quote_id"]): may this likes row be inserted
LikeUniqueOk(rows, userId, quoteId) ==
    \A l \in rows : ~(l.user_id = userId /\ l.quote_id = quoteId)

\* ---------------------------------------------------------------- GET /
\* likes.id of a joined row that has no likes row
Null == 0

\* quotes LEFT JOIN likes ON quotes.id = likes.quote_id, the rows of one quote:
\* one per matching likes row, or a single row with likes.id NULL
LeftJoinLikes(quoteId) ==
    LET matching == {l \in likes : l.quote_id = quoteId} IN
    IF matching = {} THEN {[quote_id |-> quoteId, likes_id |-> Null]}
    ELSE {[quote_id |-> quoteId, likes_id |-> l.id] : l \in matching}

\* COUNT(*): every joined row counts
CountStar(joined) == Cardinality(joined)

\* COUNT(likes.id): joined rows whose likes.id is not NULL
CountLikesId(joined) == Cardinality({r \in joined : r.likes_id # Null})

\* like_count of the group of one quote
LikeCount(quoteId) == CountLikesId(LeftJoinLikes(quoteId))

\* quotes.* plus like_count, one row per quotes.id (groupBy)
FeedRows ==
    { [id |-> q.id, quote |-> q.quote, created_at |-> q.created_at,
       like_count |-> LikeCount(q.id)] : q \in quotes }

\* the two directions swapped
OrderDirectionSwapped(sortOrder) == IF sortOrder = "oldest" THEN "desc" ELSE "asc"

\* sortOrder === 'oldest' ? 'asc' : 'desc'
OrderDirection(sortOrder) == IF sortOrder = "oldest" THEN "asc" ELSE "desc"

\* does row a come no later than row b under ORDER BY created_at <dir>
InOrder(a, b, dir) ==
    IF dir = "asc" THEN a.created_at <= b.created_at ELSE a.created_at >= b.created_at

\* every result ORDER BY created_at <dir> may return: rows with equal
\* timestamps come in an order the database chooses
OrderBy(rows, dir) ==
    { s \in [1..Cardinality(rows) -> rows] :
        /\ \A i, j \in DOMAIN s : i # j => s[i] # s[j]
        /\ \A i, j \in DOMAIN s : i < j => InOrder(s[i], s[j], dir) }

\* quotes.filter(q => ...) when searchName is non-empty
FilterQuotes(rows, searchName) ==
    LET Keep(q) == FilterKeeps(q.quote, searchName) IN SelectSeq(rows, Keep)

List(c) ==
    /\ Begin(c)
    /\ IF ~RequireLogin(session[c])
       THEN Denied("list", c, RedirectLogin)
       ELSE \E sort \in SortInputs, search \in SearchInputs :
            LET sortOrder == IF sort = "" THEN "newest" ELSE sort IN
            \E rows \in OrderBy(FeedRows, OrderDirection(sortOrder)) :
               Answer("list", c, "pass", [sort |-> sort, search |-> search], "200 index",
                      [page |-> "index", quotes |-> FilterQuotes(rows, search),
                       searchName |-> search, sortOrder |-> sortOrder])

\* ------------------------------------------------------- POST /like/:id
\* first half of the handler: gate, then the lookup of the existing row
LikeRead(c) ==
    /\ Begin(c)
    /\ IF ~RequireLogin(session[c])
       THEN Denied("like", c, RedirectLogin)
       ELSE \E quoteId \in QuoteIds :
            LET userId == session[c].id
                found == {l \in likes : l.user_id = userId /\ l.quote_id = quoteId}
            IN /\ nextLikeId <= MaxLikes
               /\ pending' = [pending EXCEPT ![c] =
                       [kind |-> "like", userId |-> userId, quoteId |-> quoteId,
                        existing |-> IF found = {} THEN 0 ELSE (CHOOSE l \in found : TRUE).id,
                        role |-> session[c].role]]
               /\ last' = Step("like", c, session[c].role, "pass", [quoteId |-> quoteId], "await")
               /\ view' = NoView
               /\ UNCHANGED <<store, seqs, now, session, toggles, composer>>

\* a delete that is never awaited into effect
DeleteLikeKeepsRow(rows, id) == rows

\* db("likes").where("id", existing.id).del()
DeleteLike(rows, id) == {l \in rows : l.id # id}

\* db("likes").insert({ user_id: userId, quote_id: quoteId })
InsertLike(rows, id, userId, quoteId) ==
    rows \cup {[id |-> id, user_id |-> userId, quote_id |-> quoteId]}

Counted(t, userId, quoteId) ==
    [t EXCEPT ![<<userId, quoteId>>] = t[<<userId, quoteId>>] + 1]

\* second half: delete the row found, or insert one; then redirect
LikeWrite(c) ==
    LET p == pending[c] IN
    /\ p.kind = "like"
    /\ pending' = [pending EXCEPT ![c] = Idle]
    /\ view' = NoView
    /\ UNCHANGED <<users, quotes, nextUserId, nextQuoteId, now, session, composer, requests>>
    /\ IF p.existing # 0
       THEN /\ likes' = DeleteLike(likes, p.existing)
            /\ UNCHANGED nextLikeId
            /\ toggles' = Counted(toggles, p.userId, p.quoteId)
            /\ last' = Step("like", c, p.role, "pass", [quoteId |-> p.quoteId], RedirectHome)
       ELSE /\ nextLikeId' = nextLikeId + 1
            /\ IF LikeUniqueOk(likes, p.userId, p.quoteId)
               THEN /\ likes' = InsertLike(likes, nextLikeId, p.userId, p.quoteId)
                    /\ toggles' = Counted(toggles, p.userId, p.quoteId)
                    /\ last' = Step("like", c, p.role, "pass", [quoteId |-> p.quoteId], RedirectHome)
               ELSE /\ UNCHANGED <<likes, toggles>>
                    /\ last' = Step("like", c, p.role, "pass", [quoteId |-> p.quoteId], Unhandled)

\* ------------------------------------------------------------ quotes CRUD
Add(c) ==
    /\ Begin(c)
    /\ IF ~RequireEditorOrAdmin(session[c])
       THEN Denied("add", c, EditorOnly)
       ELSE \E f \in FormInputs :
            IF ComposeThrows(f.names, f.quotes)
            THEN Answer("add", c, "pass", [form |-> f], Unhandled, NoView)
            ELSE \E t \in now..MaxClock :
                 LET newQuote == [id |-> nextQuoteId, quote |-> Compose(f.names, f.quotes),
                                  created_at |-> t]
                 IN /\ nextQuoteId <= MaxQuotes
                    /\ now' = t
                    /\ quotes' = quotes \cup {newQuote}
                    /\ nextQuoteId' = nextQuoteId + 1
                    /\ last' = Step("add", c, session[c].role, "pass", [form |-> f], "200 add")
                    /\ view' = [page |-> "add", lastQuote |-> newQuote, success |-> TRUE]
                    /\ UNCHANGED <<users, likes, nextUserId, nextLikeId, session,
                                   pending, toggles, composer>>

Delete(c) ==
    /\ Begin(c)
    /\ IF ~RequireEditorOrAdmin(session[c])
       THEN Denied("delete", c, EditorOnly)
       ELSE \E quoteId \in QuoteIds :
            /\ quotes' = {q \in quotes : q.id # quoteId}
            /\ last' = Step("delete", c, session[c].role, "pass", [quoteId |-> quoteId], RedirectHome)
            /\ view' = NoView
            /\ UNCHANGED <<users, likes, seqs, now, session, pending, toggles, composer>>

EditForm(c) ==
    /\ Begin(c)
    /\ IF ~RequireAdmin(session[c])
       THEN Denied("editForm", c, AdminOnly)
       ELSE \E quoteId \in QuoteIds :
            LET found == {q \in quotes : q.id = quoteId} IN
            IF found = {}
            THEN Answer("editForm", c, "pass", [quoteId |-> quoteId], QuoteNotFound, NoView)
            ELSE LET quote == CHOOSE q \in found : TRUE IN
                 Answer("editForm", c, "pass", [quoteId |-> quoteId], "200 edit",
                        [page |-> "edit", quote |-> quote, lines |-> ParseLines(quote.quote)])

\* an update that inserts the row when no row has the id
UpdateQuoteOrInsert(rows, id, body) ==
    {q \in rows : q.id # id}
      \cup {[id |-> id, quote |-> body,
              created_at |-> IF \E q \in rows : q.id = id
                             THEN (CHOOSE q \in rows : q.id = id).created_at ELSE 0]}

\* db("quotes").where("id", id).update({ quote: fullQuote })
UpdateQuote(rows, id, body) ==
    { IF q.id = id THEN [q EXCEPT !.quote = body] ELSE q : q \in rows }

Edit(c) ==
    /\ Begin(c)
    /\ IF ~RequireAdmin(session[c])
       THEN Denied("edit", c, AdminOnly)
       ELSE \E quoteId \in QuoteIds, f \in FormInputs :
            IF ComposeThrows(f.names, f.quotes)
            THEN Answer("edit", c, "pass", [quoteId |-> quoteId, form |-> f], Unhandled, NoView)
            ELSE /\ quotes' = UpdateQuote(quotes, quoteId, Compose(f.names, f.quotes))
                 /\ last' = Step("edit", c, session[c].role, "pass",
                                  [quoteId |-> quoteId, form |-> f], RedirectHome)
                 /\ view' = NoView
                 /\ UNCHANGED <<users, likes, seqs, now, session, pending, toggles, composer>>

\* ------------------------------------------------------ user administration
SetRole(c) ==
    /\ Begin(c)
    /\ IF ~RequireAdmin(session[c])
       THEN Denied("setRole", c, AdminOnly)
       ELSE \E id \in UserIds, role \in RoleInputs :
            /\ users' = { IF u.id = id THEN [u EXCEPT !.role = role] ELSE u : u \in users }
            /\ last' = Step("setRole", c, session[c].role, "pass", [id |-> id, role |-> role], RedirectUsers)
            /\ view' = NoView
            /\ UNCHANGED <<quotes, likes, seqs, now, session, pending, toggles, composer>>

\* userId === req.session.user.id: a string is never identical to a number
IsSelfWithoutParseInt(id, s) == FALSE

\* parseInt(userId) === req.session.user.id
IsSelf(id, s) == id = s.id

\* likes.user_id declared with references("users.id").onDelete("CASCADE")
LikesCascade(rows, userId) == {l \in rows : l.user_id # userId}

\* the likes table after a users row is deleted: likes.user_id is a plain
\* integer column, no foreign key, so no likes row goes with the user
LikesAfterUserDelete(rows, userId) == rows

DeleteUser(c) ==
    /\ Begin(c)
    /\ IF ~RequireAdmin(session[c])
       THEN Denied("deleteUser", c, AdminOnly)
       ELSE \E id \in UserIds :
            IF IsSelf(id, session[c])
            THEN Answer("deleteUser", c, "pass", [id |-> id], SelfDeletion, NoView)
            ELSE /\ users' = {u \in users : u.id # id}
                 /\ likes' = LikesAfterUserDelete(likes, id)
                 /\ last' = Step("deleteUser", c, session[c].role, "pass", [id |-> id], RedirectUsers)
                 /\ view' = NoView
                 /\ UNCHANGED <<quotes, seqs, now, session, pending, toggles, composer>>

UpdateProfile(c) ==
    /\ Begin(c)
    /\ IF ~RequireAdmin(session[c])
       THEN Denied("updateProfile", c, AdminOnly)
       ELSE \E id \in UserIds, username \in Usernames, email \in Emails :
            IF (\E u \in users : u.id = id) /\ ~EmailUniqueOk(users, id, email)
            THEN Answer("updateProfile", c, "pass", [id |-> id, username |-> username, email |-> email], Unhandled, NoView)
            ELSE /\ users' = { IF u.id = id
                               THEN [u EXCEPT !.username = username, !.email = email]
                               ELSE u : u \in users }
                 /\ last' = Step("updateProfile", c, session[c].role, "pass",
                                  [id |-> id, username |-> username, email |-> email], RedirectUsers)
                 /\ view' = NoView
                 /\ UNCHANGED <<quotes, likes, seqs, now, session, pending, toggles, composer>>

\* ------------------------------------------------------------------- auth
\* a session that always carries the default role
SessionUserDefaultRole(user) == [id |-> user.id, username |-> user.username, role |-> "user"]

\* res.send(...) when no row has the email
UnknownEmailSaysSo == "200 Unknown email"
UnknownEmail == InvalidCredentials
\* res.send(...) when bcrypt.compare fails
WrongPassword == InvalidCredentials

\* {id: user.id, username: user.username, role: user.role}
SessionUser(user) == [id |-> user.id, username |-> user.username, role |-> user.role]

Login(c, email, password) ==
    /\ Begin(c)
    /\ LET found == {u \in users : u.email = email} IN
       IF found = {}
       THEN Answer("login", c, "none", [email |-> email, password |-> password], UnknownEmail, NoView)
       ELSE LET user == CHOOSE u \in found : TRUE IN
            IF ~Compare(password, user.password)
            THEN Answer("login", c, "none", [email |-> email, password |-> password], UnknownEmail, NoView)
            ELSE /\ session' = [session EXCEPT ![c] = SessionUser(user)]
                 /\ last' = Step("login", c, session[c].role, "none",
                                  [email |-> email, password |-> password], RedirectHome)
                 /\ view' = NoView
                 /\ UNCHANGED <<store, seqs, now, pending, toggles, composer>>

\* db("users").where({ username: email }).first(): the lookup on the wrong column
EmailTakenByUsername(rows, email) == \E u \in rows : u.username = email

\* db("users").where({ email }).first() finds a row
EmailTaken(rows, email) == \E u \in rows : u.email = email

\* first half of POST /register: the lookup of the email
RegisterCheck(c, username, email, password) ==
    /\ Begin(c)
    /\ IF EmailTaken(users, email)
       THEN Answer("register", c, "none", [email |-> email], EmailExists, NoView)
       ELSE /\ nextUserId <= MaxUsers
            /\ pending' = [pending EXCEPT ![c] =
                    [kind |-> "register", username |-> username, email |-> email,
                     password |-> Hash(password), role |-> session[c].role]]
            /\ last' = Step("register", c, session[c].role, "none", [email |-> email], "await")
            /\ view' = NoView
            /\ UNCHANGED <<store, seqs, now, session, toggles, composer>>

\* second half: the insert, which the unique constraint on email may reject
RegisterInsert(c) ==
    LET p == pending[c] IN
    /\ p.kind = "register"
    /\ pending' = [pending EXCEPT ![c] = Idle]
    /\ view' = NoView
    /\ nextUserId' = nextUserId + 1
    /\ UNCHANGED <<quotes, likes, nextQuoteId, nextLikeId, now, session, toggles, composer, requests>>
    /\ IF EmailUniqueOk(users, nextUserId, p.email)
       THEN /\ users' = users \cup {[id |-> nextUserId, username |-> p.username,
                                     email |-> p.email, password |-> p.password,
                                     role |-> "user"]}
            /\ last' = Step("register", c, p.role, "none", [email |-> p.email], RedirectLogin)
       ELSE /\ UNCHANGED users
            /\ last' = Step("register", c, p.role, "none", [email |-> p.email], Unhandled)

\* a destroy that leaves the session in the store
DestroyKeepsSession(s, c) == s

\* req.session.destroy(...): the client's session is gone from the store
Destroy(s, c) == [s EXCEPT ![c] = NoUser]

Logout(c) ==
    /\ Begin(c)
    /\ session' = Destroy(session, c)
    /\ last' = Step("logout", c, session[c].role, "none", NoArg, RedirectLogin)
    /\ view' = NoView
    /\ UNCHANGED <<store, seqs, now, pending, toggles, composer>>

\* ------------------------------------------------------------ specification
\* the one account the deployment starts from (created outside the routes)
SeedAdmin == [id |-> 1, username |-> "n1", email |-> "e1", password |-> Hash("p1"), role |-> "admin"]

NoForm == [names |-> <<>>, quotes |-> <<>>, search |-> <<>>]
NoOut == [phase |-> "none"]

\* an account the admin has promoted before the server (re)starts
SeedEditor == [id |-> 2, username |-> "n2", email |-> "e2", password |-> Hash("p2"), role |-> "editor"]

\* users tables the server starts on: setupDatabase keeps the rows it finds
Snapshots == { {}, {SeedAdmin}, {SeedAdmin, SeedEditor} }

Init ==
    /\ users \in Snapshots
    /\ nextUserId = Cardinality(users) + 1
    /\ quotes = {}
    /\ likes = {}
    /\ nextQuoteId = 1
    /\ nextLikeId = 1
    /\ now = 0
    /\ session = [c \in Clients |-> NoUser]
    /\ pending = [c \in Clients |-> Idle]
    /\ last = [op |-> "start", c |-> "c1", role |-> "", gate |-> "none", arg |-> NoArg, res |-> ""]
    /\ view = NoView
    /\ toggles = [p \in (0..MaxUsers) \X QuoteIds |-> 0]
    /\ form = NoForm
    /\ out = NoOut
    /\ requests = 0

Next ==
    \/ \E c \in Clients : List(c)
    \/ \E c \in Clients : LikeRead(c)
    \/ \E c \in Clients : LikeWrite(c)
    \/ \E c \in Clients : Add(c)
    \/ \E c \in Clients : Delete(c)
    \/ \E c \in Clients : EditForm(c)
    \/ \E c \in Clients : Edit(c)
    \/ \E c \in Clients : SetRole(c)
    \/ \E c \in Clients : DeleteUser(c)
    \/ \E c \in Clients : UpdateProfile(c)
    \/ \E c \in Clients, e \in Emails, p \in Passwords : Login(c, e, p)
    \/ \E c \in Clients, n \in Usernames, e \in Emails, p \in Passwords : RegisterCheck(c, n, e, p)
    \/ \E c \in Clients : RegisterInsert(c)
    \/ \E c \in Clients : Logout(c)

Spec == Init /\ [][Next]_vars

\* Requests served one after the other: a request is received only when no
\* other request is between its two awaits.
Alone(c) == \A d \in Clients \ {c} : pending[d] = Idle

SeqNext ==
    \/ \E c \in Clients : Alone(c) /\ List(c)
    \/ \E c \in Clients : Alone(c) /\ LikeRead(c)
    \/ \E c \in Clients : LikeWrite(c)
    \/ \E c \in Clients : Alone(c) /\ Add(c)
    \/ \E c \in Clients : Alone(c) /\ Delete(c)
    \/ \E c \in Clients : Alone(c) /\ EditForm(c)
    \/ \E c \in Clients : Alone(c) /\ Edit(c)
    \/ \E c \in Clients : Alone(c) /\ SetRole(c)
    \/ \E c \in Clients : Alone(c) /\ DeleteUser(c)
    \/ \E c \in Clients : Alone(c) /\ UpdateProfile(c)
    \/ \E c \in Clients, e \in Emails, p \in Passwords : Alone(c) /\ Login(c, e, p)
    \/ \E c \in Clients, n \in Usernames, e \in Emails, p \in Passwords :
          Alone(c) /\ RegisterCheck(c, n, e, p)
    \/ \E c \in Clients : RegisterInsert(c)
    \/ \E c \in Clients : Logout(c)

SeqSpec == Init /\ [][SeqNext]_vars

\* A server restarted on a database that already holds content: the seeded
\* accounts, one quote and the editor's like of it.
SeedQuote == [id |-> 1, quote |-> <<"a", ":", " ", "a">>, created_at |-> 0]
SeedLike == [id |-> 1, user_id |-> 2, quote_id |-> 1]

Populated ==
    /\ users = {SeedAdmin, SeedEditor}
    /\ nextUserId = 3
    /\ quotes = {SeedQuote}
    /\ likes = {SeedLike}
    /\ nextQuoteId = 2
    /\ nextLikeId = 2
    /\ now = 0
    /\ session = [c \in Clients |-> NoUser]
    /\ pending = [c \in Clients |-> Idle]
    /\ last = [op |-> "start", c |-> "c1", role |-> "", gate |-> "none", arg |-> NoArg, res |-> ""]
    /\ view = NoView
    /\ toggles = [p \in (0..MaxUsers) \X QuoteIds |-> IF p = <<2, 1>> THEN 1 ELSE 0]
    /\ form = NoForm
    /\ out = NoOut
    /\ requests = 0

\* the server started on an empty database or on the populated one
RestartInit == (Init /\ users = {}) \/ Populated

RestartSpec == RestartInit /\ [][Next]_vars

\* ------------------------------------------------ composer specifications
\* The composer, the edit-form parser and the speaker filter are pure: they
\* are run here on every form within MaxInput, outside the request model.

StringsUpTo(n) == UNION { [1..k -> Chars] : k \in 0..n }

\* arrays of k strings holding at most chars characters together
RECURSIVE Fields(_, _)
Fields(k, chars) ==
    IF k = 0 THEN { <<>> }
    ELSE UNION { { <<str>> \o rest : rest \in Fields(k - 1, chars - Len(str)) } :
                 str \in StringsUpTo(chars) }

RECURSIVE TotalLen(_)
TotalLen(arr) == IF arr = <<>> THEN 0 ELSE Len(Head(arr)) + TotalLen(Tail(arr))

\* form is a form with n names, m quotes and a search string of at most
\* maxSearch characters, of size at most MaxInput
DrawForm(n, m, maxSearch) ==
    \E srch \in StringsUpTo(maxSearch) :
       \E ns \in Fields(n, MaxInput - n - m - Len(srch)) :
          \E qs \in Fields(m, MaxInput - n - m - Len(srch) - TotalLen(ns)) :
             form = [names |-> ns, quotes |-> qs, search |-> srch]

\* everything but the composer's variables, at rest
Rest ==
    /\ users = {} /\ quotes = {} /\ likes = {}
    /\ nextUserId = 1 /\ nextQuoteId = 1 /\ nextLikeId = 1 /\ now = 0
    /\ session = [c \in Clients |-> NoUser]
    /\ pending = [c \in Clients |-> Idle]
    /\ last = [op |-> "start", c |-> "c1", role |-> "", gate |-> "none", arg |-> NoArg, res |-> ""]
    /\ view = NoView
    /\ toggles = [p \in (0..MaxUsers) \X QuoteIds |-> 0]
    /\ requests = 0

RestUnchanged ==
    UNCHANGED <<store, seqs, now, session, pending, last, view, toggles, requests>>

\* POST /add or POST /edit/:id composes the body it stores
Submit ==
    /\ out.phase = "none"
    /\ out' = IF ComposeThrows(form.names, form.quotes)
              THEN [phase |-> "thrown"]
              ELSE [phase |-> "stored", body |-> Compose(form.names, form.quotes)]
    /\ UNCHANGED form
    /\ RestUnchanged

\* GET /edit/:id parses the stored body into the lines of the edit form
Render ==
    /\ out.phase = "stored"
    /\ out' = [phase |-> "rendered", body |-> out.body, lines |-> ParseLines(out.body)]
    /\ UNCHANGED form
    /\ RestUnchanged

\* GET /?search= decides whether the stored body stays in the list
Filter ==
    /\ out.phase = "stored"
    /\ out' = [phase |-> "filtered", body |-> out.body,
               kept |-> FilterKeeps(out.body, form.search)]
    /\ UNCHANGED form
    /\ RestUnchanged

ComposeInit ==
    /\ \E n, m \in 0..MaxInput : n + m <= MaxInput /\ DrawForm(n, m, 0)
    /\ out = NoOut
    /\ Rest

ComposeNext == Submit \/ Render

ComposeSpec == ComposeInit /\ [][ComposeNext]_vars

FilterInit ==
    /\ \E n \in 0..MaxInput : 2 * n <= MaxInput /\ DrawForm(n, n, MaxSearch)
    /\ out = NoOut
    /\ Rest

FilterNext == Submit \/ Filter

FilterSpec == FilterInit /\ [][FilterNext]_vars

\* ------------------------------------------------------------------ claims
\* the step just taken received a new request (it is not the second half of one)
Received == requests' = requests + 1

\* the role the acting request's session had when its gate ran
ActingRole ==
    IF Received THEN session[last'.c].role ELSE pending[last'.c].role

\* the session the acting request ran its gate on was logged in
ActingLoggedIn ==
    IF Received THEN session[last'.c] # NoUser ELSE pending[last'.c].userId # 0

QuoteIdsOf(rows) == {q.id : q \in rows}

\* C1: a register request whose email is already in the users table answers
\* "Email already exists" and changes neither the users table, nor any other
\* table, nor a session, whatever requests came before.
C1_DuplicateEmailRejected ==
    [][ (last'.op = "register" /\ Received
           /\ \E u \in users : u.email = last'.arg.email)
        => /\ last'.res = EmailExists
           /\ UNCHANGED <<users, quotes, likes, seqs, session, pending>> ]_vars

C1_Witness ==
    /\ last.op = "register" /\ last.res = EmailExists
    /\ requests > 1
    /\ \E u \in users : u.email = last.arg.email

\* C2: every change of the store is made by a request of the required tier:
\* the set of quote ids changes only under editor or admin, a quote body is
\* replaced and a user row is changed or removed only under admin, the likes
\* table changes only under a logged-in session; a request its gate denies
\* (403, or the redirect to /login) changes nothing.
C2_MutationsUnderRequiredTier ==
    [][ /\ QuoteIdsOf(quotes') # QuoteIdsOf(quotes) => ActingRole \in {"editor", "admin"}
        /\ (\E q \in quotes, r \in quotes' : q.id = r.id /\ q.quote # r.quote)
              => ActingRole = "admin"
        /\ (\E u \in users : u \notin users') => ActingRole = "admin"
        /\ likes' # likes => ActingLoggedIn
        /\ last'.gate = "deny"
              => /\ last'.res \in {RedirectLogin, AdminOnly, EditorOnly}
                 /\ UNCHANGED <<users, quotes, likes, seqs, session, pending>> ]_vars

C2_Witness ==
    /\ last.op = "add" /\ last.res = "200 add" /\ last.role = "editor"
    /\ \E q \in quotes : q.id = view.lastQuote.id

\* C3: a login with the email of a stored user and that user's password sets
\* the client's session to exactly the id, username and role of the stored row,
\* whatever the session held before, and changes no table and no other session.
C3_LoginSnapshotsStoredUser ==
    [][ (last'.op = "login"
           /\ \E u \in users : u.email = last'.arg.email
                               /\ Compare(last'.arg.password, u.password))
        => /\ \E u \in users :
                 /\ u.email = last'.arg.email
                 /\ session'[last'.c] = [id |-> u.id, username |-> u.username, role |-> u.role]
           /\ \A d \in Clients \ {last'.c} : session'[d] = session[d]
           /\ last'.res = RedirectHome
           /\ UNCHANGED <<users, quotes, likes, seqs, pending>> ]_vars

\* a login that replaced the session of another account by an editor's
C3_Witness ==
    /\ last.op = "login" /\ last.res = RedirectHome
    /\ last.role = "admin"
    /\ session[last.c].role = "editor"

\* C4: a login that fails answers the same "Invalid credentials" whether no
\* row has the email or the row's password does not match, and in both cases
\* leaves every session and every table as they were.
C4_FailedLoginUniform ==
    [][ (last'.op = "login"
           /\ ~ \E u \in users : u.email = last'.arg.email
                                 /\ Compare(last'.arg.password, u.password))
        => /\ last'.res = InvalidCredentials
           /\ view' = NoView
           /\ UNCHANGED <<users, quotes, likes, seqs, session, pending>> ]_vars

\* a failed login for an email that is registered
C4_Witness ==
    /\ last.op = "login" /\ last.res = InvalidCredentials
    /\ \E u \in users : u.email = last.arg.email

PairRows(userId, quoteId) == {l \in likes : l.user_id = userId /\ l.quote_id = quoteId}
Pairs(rows) == {<<l.user_id, l.quote_id>> : l \in rows}

\* C5: with requests served one after the other, each POST /like/:id answered
\* flips the (user, quote) pair exactly once and leaves the other pairs alone
\* (so two in a row restore the set of liked pairs), and starting from no like
\* a pair has exactly one row after an odd number of toggles and none after an
\* even number.
C5_ToggleFlipsOnce ==
    /\ [](\A p \in DOMAIN toggles : Cardinality(PairRows(p[1], p[2])) = toggles[p] % 2)
    /\ [][ (last'.op = "like" /\ ~Received)
            => LET pair == <<pending[last'.c].userId, pending[last'.c].quoteId>> IN
               /\ last'.res = RedirectHome
               /\ (pair \in Pairs(likes')) = (pair \notin Pairs(likes))
               /\ Pairs(likes') \ {pair} = Pairs(likes) \ {pair}
               /\ toggles'[pair] = toggles[pair] + 1 ]_vars

\* a pair liked, unliked and liked again
C5_Witness ==
    \E p \in DOMAIN toggles : toggles[p] = 3 /\ Cardinality(PairRows(p[1], p[2])) = 1

\* C6: in every state, whatever the interleaving of the lookups and writes of
\* concurrent POST /like/:id requests, a (user, quote) pair has at most one
\* likes row; the second of two racing inserts is rejected by the unique
\* constraint and its request ends without a response.
C6_OneLikePerPair ==
    /\ \A l1, l2 \in likes :
          (l1.user_id = l2.user_id /\ l1.quote_id = l2.quote_id) => l1 = l2
    /\ (last.op = "like" /\ last.res = Unhandled)
          => \E l \in likes : l.quote_id = last.arg.quoteId

\* the second insert of a race has been rejected
C6_Witness ==
    /\ last.op = "like" /\ last.res = Unhandled
    /\ \E l \in likes : l.quote_id = last.arg.quoteId /\ l.user_id = session[last.c].id

\* C7: a POST /users/:id/delete that passes the admin gate answers 400 and
\* changes no table when :id is the acting session's own id, and otherwise
\* removes exactly the users row with that id.
C7_SelfDeletionRefused ==
    [][ (last'.op = "deleteUser" /\ last'.gate = "pass")
        => IF last'.arg.id = session[last'.c].id
           THEN /\ last'.res = SelfDeletion
                /\ UNCHANGED <<users, quotes, likes, seqs, session>>
           ELSE /\ last'.res = RedirectUsers
                /\ users' = {u \in users : u.id # last'.arg.id}
                /\ UNCHANGED <<quotes, likes, session>> ]_vars

\* an admin refused the deletion of the row it is logged in as
C7_Witness ==
    /\ last.op = "deleteUser" /\ last.res = SelfDeletion
    /\ \E u \in users : u.id = last.arg.id /\ u.id = session[last.c].id

\* the (trim(name), trim(utterance)) pairs of a form
TrimmedPairs(names, utterances) ==
    [i \in 1..Len(names) |-> [name |-> Trim(names[i]), text |-> Trim(utterances[i])]]

\* C8: for names[] and quotes[] of equal length the stored body is the
\* newline-join of "<trim(name)>: <trim(utterance)>" and the edit form's
\* parse of it is exactly the sequence of (trim(name), trim(utterance)).
C8_ComposeParseRoundTrip ==
    (out.phase = "rendered" /\ Len(form.names) = Len(form.quotes))
    => /\ out.body = Join([i \in 1..Len(form.names) |->
                              Trim(form.names[i]) \o <<":", " ">> \o Trim(form.quotes[i])], "\n")
       /\ out.lines = TrimmedPairs(form.names, form.quotes)

\* the speaker names the filter reads: the text before the first colon,
\* trimmed, of every line that has a colon
Speakers(body) ==
    LET ls == Split(body, "\n") IN
    { Trim(SubSeq(ls[i], 1, IndexOf(ls[i], ":") - 1)) :
        i \in { k \in 1..Len(ls) : IndexOf(ls[k], ":") > 0 } }

\* C9 as claimed: the quote is kept exactly when the query is empty or the
\* query itself is a case-insensitive substring of a speaker name.
C9_FilterByRawQuery ==
    out.phase = "filtered"
    => (out.kept <=> (form.search = <<>>
                       \/ \E sp \in Speakers(out.body) :
                             Includes(ToLowerCase(sp), ToLowerCase(form.search))))

\* C9 amended: the quote is kept exactly when the query is empty or the query
\* with its leading and trailing whitespace removed is a case-insensitive
\* substring of the speaker name of a line that has a colon; lines without a
\* colon never match and the empty query keeps every quote.
C9_FilterByTrimmedQuery ==
    out.phase = "filtered"
    => (out.kept <=> (form.search = <<>>
                       \/ \E sp \in Speakers(out.body) :
                             Includes(ToLowerCase(sp), ToLowerCase(Trim(form.search)))))

\* a query with a leading blank, kept by a speaker written in the other case
C9_Witness ==
    /\ out.phase = "filtered" /\ out.kept
    /\ form.search = <<" ", "a">>
    /\ Speakers(out.body) = { <<"A">> }

Ascending(rows) == \A i, j \in DOMAIN rows : i < j => rows[i].created_at <= rows[j].created_at
Descending(rows) == \A i, j \in DOMAIN rows : i < j => rows[i].created_at >= rows[j].created_at

\* C10: the list GET / renders is in ascending creation time when sort is
\* "oldest" and in descending creation time when sort is "newest" or absent;
\* with an empty search it holds every stored quote exactly once.
C10_ListOrder ==
    view.page = "index"
    => /\ last.arg.sort = "oldest" => Ascending(view.quotes)
       /\ last.arg.sort \in {"newest", ""} => Descending(view.quotes)
       /\ last.arg.search = <<>>
            => /\ {view.quotes[i].id : i \in DOMAIN view.quotes} = QuoteIdsOf(quotes)
               /\ Len(view.quotes) = Cardinality(quotes)

\* two quotes created at different times, listed oldest first
C10_Witness ==
    /\ view.page = "index" /\ last.arg.sort = "oldest"
    /\ Len(view.quotes) = 2
    /\ view.quotes[1].created_at < view.quotes[2].created_at

\* C11: every row GET / renders carries as like_count the number of likes rows
\* whose quote_id is that quote's id, zero when there is none, whatever adds,
\* deletes, edits and likes came before.
C11_LikeCountShown ==
    view.page = "index"
    => \A i \in DOMAIN view.quotes :
          view.quotes[i].like_count
             = Cardinality({l \in likes : l.quote_id = view.quotes[i].id})

\* a liked quote listed with its one like
C11_Witness ==
    /\ view.page = "index"
    /\ \E i \in DOMAIN view.quotes : view.quotes[i].like_count = 1
    /\ likes # {}

\* C12: in every state, whatever the interleaving of the two halves of
\* concurrent POST /register requests and of POST /users/:id/update requests,
\* no two users rows carry the same email; a write that would make two is
\* rejected by the unique constraint and its request ends without a response.
C12_EmailUnique ==
    /\ \A u1, u2 \in users : u1.email = u2.email => u1 = u2
    /\ (last.op \in {"register", "updateProfile"} /\ last.res = Unhandled)
          => \E u \in users : u.email = last.arg.email

\* the insert of the second of two racing registrations has been rejected
C12_Witness ==
    /\ last.op = "register" /\ last.res = Unhandled
    /\ Cardinality({u \in users : u.email = last.arg.email}) = 1

\* the roles of the data model
Roles == {"user", "editor", "admin"}

\* C13: in every state every users row has a role that is one of user,
\* editor, admin, whatever register and role-change requests came before.
C13_RolesValid == \A u \in users : u.role \in Roles

\* the routes behind requireLogin, requireEditorOrAdmin or requireAdmin
ProtectedOps ==
    {"list", "like", "add", "delete", "editForm", "edit",
     "setRole", "deleteUser", "updateProfile"}

\* C14: GET /logout leaves the client without a session whatever the session
\* was, and changes no table and no other client's session; a client without
\* a session has every protected request denied (redirect to /login or 403)
\* with no effect, and gets a session again only by a successful login of
\* its own.
C14_LogoutEndsAccess ==
    [][ /\ last'.op = "logout"
            => /\ session'[last'.c] = NoUser
               /\ \A d \in Clients \ {last'.c} : session'[d] = session[d]
               /\ last'.res = RedirectLogin
               /\ UNCHANGED <<users, quotes, likes, seqs, pending>>
        /\ (Received /\ last'.op \in ProtectedOps /\ session[last'.c] = NoUser)
            => /\ last'.gate = "deny"
               /\ last'.res \in {RedirectLogin, AdminOnly, EditorOnly}
               /\ UNCHANGED <<users, quotes, likes, seqs, session, pending>>
        /\ \A c \in Clients :
              (session[c] = NoUser /\ session'[c] # NoUser)
              => last'.op = "login" /\ last'.c = c /\ last'.res = RedirectHome ]_vars

\* an admin has logged out after changing the store
C14_Witness ==
    /\ last.op = "logout" /\ last.role = "admin"
    /\ session[last.c] = NoUser
    /\ quotes # {}

\* C15: a GET /edit/:id or POST /edit/:id that passes the admin gate and
\* names an id no quotes row has answers 404 "Quote not found" and changes
\* no table.
C15_EditMissingNotFound ==
    [][ (last'.op \in {"editForm", "edit"} /\ last'.gate = "pass"
           /\ last'.arg.quoteId \notin QuoteIdsOf(quotes))
        => /\ last'.res = QuoteNotFound
           /\ UNCHANGED <<users, quotes, likes>> ]_vars

\* C16: a quote id becomes present only by a POST /add that answers 200, with
\* an id never used before, and becomes absent only by a POST /delete/:id; a
\* POST /edit/:id on a present quote replaces its body by the composed body
\* and keeps its id, its created_at, every other quote and the likes table;
\* an edit or delete of an absent id leaves the quotes table as it is.
C16_QuoteLifecycle ==
    /\ [](\A q \in quotes : q.id < nextQuoteId)
    /\ [][ /\ \A id \in QuoteIdsOf(quotes') \ QuoteIdsOf(quotes) :
               /\ last'.op = "add" /\ last'.res = "200 add"
               /\ id = nextQuoteId /\ nextQuoteId' = nextQuoteId + 1
           /\ \A id \in QuoteIdsOf(quotes) \ QuoteIdsOf(quotes') :
               /\ last'.op = "delete" /\ last'.arg.quoteId = id
           /\ (last'.op = "edit" /\ last'.res = RedirectHome
                 /\ last'.arg.quoteId \in QuoteIdsOf(quotes))
               => /\ \A q \in quotes :
                       IF q.id = last'.arg.quoteId
                       THEN [id |-> q.id,
                             quote |-> Compose(last'.arg.form.names, last'.arg.form.quotes),
                             created_at |-> q.created_at] \in quotes'
                       ELSE q \in quotes'
                  /\ Cardinality(quotes') = Cardinality(quotes)
                  /\ UNCHANGED <<users, likes>>
           /\ (last'.op \in {"edit", "delete"} /\ last'.gate = "pass"
                 /\ last'.arg.quoteId \notin QuoteIdsOf(quotes))
               => UNCHANGED quotes ]_vars

\* a liked quote whose body an edit has replaced
C16_Witness ==
    /\ last.op = "edit" /\ last.res = RedirectHome
    /\ \E q \in quotes :
          /\ q.id = last.arg.quoteId
          /\ q.quote = <<"A", ":", " ", "a">>
          /\ \E l \in likes : l.quote_id = q.id

\* C17: a POST /users/:id/delete that succeeds removes the users row with that
\* id and nothing else, and a POST /delete/:id removes the quotes row with
\* that id and nothing else: the likes table is untouched by both, and GET /
\* counts every likes row of a listed quote, also those whose user is gone.
C17_DeleteLeavesLikes ==
    /\ [](view.page = "index"
            => \A i \in DOMAIN view.quotes :
                  view.quotes[i].like_count
                    >= Cardinality({l \in likes :
                          /\ l.quote_id = view.quotes[i].id
                          /\ l.user_id \notin {u.id : u \in users}}))
    /\ [][ /\ (last'.op = "deleteUser" /\ last'.res = RedirectUsers)
               => /\ users' = {u \in users : u.id # last'.arg.id}
                  /\ UNCHANGED <<quotes, likes>>
           /\ (last'.op = "delete" /\ last'.gate = "pass")
               => /\ quotes' = {q \in quotes : q.id # last'.arg.quoteId}
                  /\ UNCHANGED <<users, likes>> ]_vars

\* a quote listed with the like of a user who has been deleted
C17_Witness ==
    /\ view.page = "index"
    /\ \E i \in DOMAIN view.quotes :
          /\ view.quotes[i].like_count = 1
          /\ \E l \in likes : /\ l.quote_id = view.quotes[i].id
                                /\ l.user_id \notin {u.id : u \in users}

Has(str, ch) == \E i \in DOMAIN str : str[i] = ch

\* C18: the edit form's parse of a line that has a colon yields the text
\* before the first colon, trimmed, as name and everything after the first
\* colon, inner colons kept, trimmed, as text; so when no name has a colon (and
\* no trimmed field spans two lines) the parse of the composed body is exactly
\* the sequence of (trim(name), trim(utterance)), colons in utterances included.
C18_ParseSplitsAtFirstColon ==
    out.phase = "rendered"
    => LET ls == Split(out.body, "\n") IN
       /\ Len(out.lines) = Len(ls)
       /\ \A i \in 1..Len(ls) :
             LET k == IndexOf(ls[i], ":") IN
             k > 0 => out.lines[i] = [name |-> Trim(SubSeq(ls[i], 1, k - 1)),
                                      text |-> Trim(SubSeq(ls[i], k + 1, Len(ls[i])))]
       /\ ( /\ Len(form.names) = Len(form.quotes)
            /\ \A i \in 1..Len(form.names) :
                  /\ ~Has(form.names[i], ":")
                  /\ ~Has(Trim(form.names[i]), "\n")
                  /\ ~Has(Trim(form.quotes[i]), "\n") )
          => out.lines = TrimmedPairs(form.names, form.quotes)

\* an utterance with two colons has come back whole
C18_Witness ==
    /\ out.phase = "rendered"
    /\ form.names = << <<"a">> >>
    /\ form.quotes = << <<":", "a", ":">> >>
    /\ out.lines = << [name |-> <<"a">>, text |-> <<":", "a", ":">>] >>

\* C19: a POST /add or POST /edit/:id that passes its gate with names[] and
\* quotes[] of different lengths fails in compose and leaves the quotes table
\* as it is, so no submitted utterance is dropped from a stored body.
C19_LengthMismatchFails ==
    [][ (last'.op \in {"add", "edit"} /\ last'.gate = "pass"
           /\ Len(last'.arg.form.names) # Len(last'.arg.form.quotes))
        => /\ last'.res = Unhandled
           /\ UNCHANGED quotes ]_vars

\* C20: in every state each logged-in session agrees with the users table: a
\* row with the session's user id exists and its role is the role the session
\* carries, also after an admin changed, demoted or deleted that user.
C20_SessionMatchesStore ==
    \A c \in Clients :
       session[c] # NoUser
       => \E u \in users : u.id = session[c].id /\ u.role = session[c].role

\* no users row and no session carries the role admin
NoAdmin ==
    /\ \A u \in users : u.role # "admin"
    /\ \A c \in Clients : session[c].role # "admin"

====
